---- MODULE Spec2Model ----
\* review-go: a model of the interactive review session (internal/ui/model.go),
\* the staged-file listing (internal/gitops/gitops.go), the configuration
\* loader (internal/config/config.go), the provider resolver
\* (internal/ai/provider.go) and the configuration commands (cmd/config.go).
EXTENDS Integers, Sequences, FiniteSets, TLC

VARIABLES
    m,           \* ui.Model: files, reviews, loading, selected, spinner, width, height, err
    provider,    \* ui.Model.provider: "nil" or "llm"
    started,     \* Model.Init has been called by the program
    quit,        \* Update has returned tea.Quit
    tickPending, \* a spinner tick command is outstanding
    run,         \* the goroutine running the command returned by loadReviewsCmd
    completion,  \* the reviewLoadedMsg the command returned (NoMsg before)
    delivered,   \* how many times the reviewLoadedMsg was handed to Update
    callLog      \* external calls (git subprocess, chat request) started by the run

VARIABLES
    doc,         \* the document at ~/.review-go.yaml
    last,        \* the last configuration command: its arguments, outcome and the document before it
    ncmds,       \* number of configuration commands run so far
    loaded,      \* what the root command, run after the last command, loaded and resolved
    race         \* two set-key processes started together: where each is, the
                 \* configuration each has read, and the order of their writes

VARIABLES
    rcfg,        \* the config.Config handed to ai.NewProvider
    rout,        \* what NewProvider resolved from it (NoResolve before)
    rout2        \* what NewProvider resolved from the already resolved values

VARIABLES
    main         \* the process of the root command: where it is, its loads of the
                 \* configuration file, its warning, its error and its exit code

uiVars == <<m, provider, started, quit, tickPending, run, completion, delivered, callLog>>
cfgVars == <<doc, last, ncmds, loaded, race>>
resVars == <<rcfg, rout, rout2>>
vars == <<uiVars, cfgVars, resVars, main>>

----------------------------------------------------------------------------
\* Bounds of the model.

\* longest raw output (in lines) of `git diff --cached --name-only`
MaxLines == 3
\* the spinner frame is counted modulo this number
SpinnerFrames == 3
\* configuration commands run one after the other
MaxCmds == 2

----------------------------------------------------------------------------
\* Strings and their conversions.

\* strings.TrimSpace on the strings of the model
TrimSpace(s) ==
    CASE s = " " -> ""
      [] s = " \n" -> ""
      [] s = " LGTM " -> "LGTM"
      [] s = " a.go" -> "a.go"
      [] s = " qwen " -> "qwen"
      [] s = " U1 " -> "U1"
      [] s = " M1 " -> "M1"
      [] s = " K1 " -> "K1"
      [] OTHER -> s

\* strings.ToLower on the strings of the model
ToLower(s) ==
    CASE s = "DeepSeek" -> "deepseek"
      [] s = "OpenAI" -> "openai"
      [] OTHER -> s

\* strings.Contains(output, "not a git repository")
ContainsNotARepo(s) == s = "fatal: not a git repository"

----------------------------------------------------------------------------
\* Go values: slices, maps and errors.

EmptyKV == [f \in {} |-> ""]
NilSlice == [isNil |-> TRUE, elems |-> <<>>]
Slice(s) == [isNil |-> FALSE, elems |-> s]
NilMap == [isNil |-> TRUE, kv |-> EmptyKV]
MakeMap == [isNil |-> FALSE, kv |-> EmptyKV]
MapOf(kv) == [isNil |-> FALSE, kv |-> kv]
\* reviews[f] = reply
MapSet(kv, f, v) == [g \in (DOMAIN kv) \cup {f} |-> IF g = f THEN v ELSE kv[g]]
\* m.reviews[file] of a Go map: the zero value for a missing key
MapGet(mp, f) == IF f \in DOMAIN mp.kv THEN mp.kv[f] ELSE ""

NoErr == [kind |-> "nil", file |-> "", cause |-> ""]
\* fmt.Errorf("...%s...: %w", f, err): the wrapped error keeps the operation,
\* the file name and the cause
Errorf(kind, file, cause) == [kind |-> kind, file |-> file, cause |-> cause]

NoMsg == [type |-> "none"]

\* reviewLoadedMsg
reviewLoadedMsg(files, reviews, err) ==
    [type |-> "reviewLoaded", files |-> files, reviews |-> reviews, err |-> err]

----------------------------------------------------------------------------
\* gitops.GetChangedFiles: the lines of the trimmed output, each trimmed,
\* blank lines skipped, duplicates dropped, first occurrence kept.

RawLines == {"a.go", " a.go", "b.go", "c.go", ""}

RECURSIVE DedupLines(_, _)
DedupLines(lines, acc) ==
    IF lines = <<>> THEN acc
    ELSE LET line == TrimSpace(Head(lines))
         IN IF line = "" \/ (\E i \in 1..Len(acc) : acc[i] = line)
            THEN DedupLines(Tail(lines), acc)
            ELSE DedupLines(Tail(lines), Append(acc, line))

\* exec: [failed, notFound, out] is what cmd.CombinedOutput returned
GetChangedFiles(exec) ==
    LET nonblank == \E i \in 1..Len(exec.lines) : TrimSpace(exec.lines[i]) # ""
    IN IF exec.failed
       THEN [files |-> NilSlice,
             err |-> IF exec.notFound THEN "git not installed"
                     ELSE IF ContainsNotARepo(exec.out) THEN "not a git repository"
                     ELSE IF exec.out # "" THEN "git diff --name-only failed: output"
                     ELSE "git diff --name-only failed: exec"]
       ELSE IF ~nonblank
            THEN [files |-> Slice(<<>>), err |-> ""]
            ELSE [files |-> Slice(DedupLines(exec.lines, <<>>)), err |-> ""]

\* what the subprocess of GetChangedFiles can return
ListExecs ==
    { [failed |-> TRUE, notFound |-> nf, out |-> o, lines |-> <<>>] :
        nf \in BOOLEAN, o \in {"", "fatal: not a git repository", "error: bad revision"} }
    \cup
    { [failed |-> FALSE, notFound |-> FALSE, out |-> "", lines |-> l] :
        l \in UNION { [1..n -> RawLines] : n \in 0..MaxLines } }

----------------------------------------------------------------------------
\* getFileStagedDiff and the chat call.

DiffOutputs == {"", " \n", "fatal: not a git repository", "error: bad revision", "@@ -1 +1 @@"}

\* getFileStagedDiff that returns an empty diff as a result
getFileStagedDiff_AllowEmpty(file, exec) ==
    LET output == TrimSpace(exec.out)
    IN IF exec.failed
       THEN [diff |-> "",
             err |-> IF ContainsNotARepo(output) THEN "not a git repository"
                     ELSE IF output # "" THEN "git diff failed: output"
                     ELSE "git diff failed: exec"]
       ELSE [diff |-> output, err |-> ""]

\* exec: [failed, out] is what cmd.CombinedOutput returned for the file
getFileStagedDiff(file, exec) ==
    LET output == TrimSpace(exec.out)
    IN IF exec.failed
       THEN [diff |-> "",
             err |-> IF ContainsNotARepo(output) THEN "not a git repository"
                     ELSE IF output # "" THEN "git diff failed: output"
                     ELSE "git diff failed: exec"]
       ELSE IF output = ""
            THEN [diff |-> "", err |-> "no diff output for " \o file]
            ELSE [diff |-> output, err |-> ""]

DiffExecs == { [failed |-> f, out |-> o] : f \in BOOLEAN, o \in DiffOutputs }

\* buildReviewPrompt: the fixed instructions with the diff embedded
buildReviewPrompt(diff) ==
    IF TrimSpace(diff) = ""
    THEN "diff is empty, nothing to review"
    ELSE "review instructions + " \o TrimSpace(diff)

\* what the chat-completion request can return
ChatResponses ==
    { [kind |-> "transport error", content |-> ""],
      [kind |-> "no choices", content |-> ""] }
    \cup { [kind |-> "choice", content |-> c] : c \in {" ", " LGTM ", "needs work"} }

\* OpenAICompatibleProvider.Chat
Chat(prompt, resp) ==
    IF TrimSpace(prompt) = ""
    THEN [reply |-> "", err |-> "prompt is empty"]
    ELSE IF resp.kind = "transport error"
    THEN [reply |-> "", err |-> "chat request failed"]
    ELSE IF resp.kind = "no choices"
    THEN [reply |-> "", err |-> "no choices"]
    ELSE IF TrimSpace(resp.content) = ""
    THEN [reply |-> "", err |-> "blank content"]
    ELSE [reply |-> TrimSpace(resp.content), err |-> ""]

----------------------------------------------------------------------------
\* The Bubble Tea model.

\* NewModel
NewModel ==
    [files |-> NilSlice, reviews |-> MakeMap, loading |-> TRUE, selected |-> 0,
     spinner |-> 0, width |-> 0, height |-> 0, err |-> NoErr]

Keys == {"up", "k", "down", "j", "q", "ctrl+c", "x"}
Widths == {40, 120}
Heights == {24, 50}

WindowSizeMsg(w, h) == [type |-> "WindowSize", width |-> w, height |-> h]
TickMsg == [type |-> "Tick"]
KeyMsg(key) == [type |-> "Key", key |-> key]

\* UpdateWindowSize that puts the cursor back on the first file
UpdateWindowSize_ResetCursor(mm, msg) ==
    [m |-> [mm EXCEPT !.width = msg.width, !.height = msg.height, !.selected = 0],
     cmd |-> "nil"]

\* Update, case tea.WindowSizeMsg
UpdateWindowSize(mm, msg) ==
    [m |-> [mm EXCEPT !.width = msg.width, !.height = msg.height], cmd |-> "nil"]

\* UpdateTick that empties the file list and the mapping once loading is over
UpdateTick_Reset(mm) ==
    IF mm.loading
    THEN [m |-> [mm EXCEPT !.spinner = (mm.spinner + 1) % SpinnerFrames], cmd |-> "tick"]
    ELSE [m |-> [mm EXCEPT !.files = Slice(<<>>), !.reviews = MakeMap], cmd |-> "nil"]

\* UpdateTick that gives up loading when the spinner has gone round once
UpdateTick_Timeout(mm) ==
    IF mm.loading
    THEN IF mm.spinner = SpinnerFrames - 1
         THEN [m |-> [mm EXCEPT !.loading = FALSE, !.err = Errorf("timeout", "", "timed out")],
               cmd |-> "nil"]
         ELSE [m |-> [mm EXCEPT !.spinner = mm.spinner + 1], cmd |-> "tick"]
    ELSE [m |-> mm, cmd |-> "nil"]

\* Update, case spinner.TickMsg
UpdateTick(mm) ==
    IF mm.loading
    THEN [m |-> [mm EXCEPT !.spinner = (mm.spinner + 1) % SpinnerFrames], cmd |-> "tick"]
    ELSE [m |-> mm, cmd |-> "nil"]

\* UpdateReviewLoaded that stores the message and leaves the loading flag set
UpdateReviewLoaded_KeepLoading(mm, msg) ==
    [m |-> [mm EXCEPT !.err = msg.err, !.files = msg.files, !.reviews = msg.reviews],
     cmd |-> "nil"]

\* UpdateReviewLoaded that forgets to capture the error
UpdateReviewLoaded_DropErr(mm, msg) ==
    [m |-> [mm EXCEPT !.loading = FALSE, !.files = msg.files, !.reviews = msg.reviews],
     cmd |-> "nil"]

\* Update, case reviewLoadedMsg
UpdateReviewLoaded(mm, msg) ==
    LET m1 == [mm EXCEPT !.loading = FALSE, !.err = msg.err]
        m2 == IF msg.err = NoErr
              THEN LET m3 == [m1 EXCEPT !.files = msg.files, !.reviews = msg.reviews]
                   IN IF Len(m3.files.elems) > 0 /\ m3.selected >= Len(m3.files.elems)
                      THEN [m3 EXCEPT !.selected = 0]
                      ELSE m3
              ELSE m1
    IN [m |-> m2, cmd |-> "nil"]

\* UpdateKey whose "down" bound is off by one: selected < len(files)
UpdateKey_OffByOne(mm, msg) ==
    IF msg.key \in {"q", "ctrl+c"}
    THEN [m |-> mm, cmd |-> "quit"]
    ELSE IF mm.loading \/ mm.err # NoErr
    THEN [m |-> mm, cmd |-> "nil"]
    ELSE IF msg.key \in {"up", "k"}
    THEN [m |-> IF mm.selected > 0 THEN [mm EXCEPT !.selected = mm.selected - 1] ELSE mm,
          cmd |-> "nil"]
    ELSE IF msg.key \in {"down", "j"}
    THEN [m |-> IF mm.selected < Len(mm.files.elems)
                THEN [mm EXCEPT !.selected = mm.selected + 1] ELSE mm,
          cmd |-> "nil"]
    ELSE [m |-> mm, cmd |-> "nil"]

\* UpdateKey that handles the navigation keys in every state and moves down
\* without looking at the length of the list
UpdateKey_NavAnywhere(mm, msg) ==
    IF msg.key \in {"q", "ctrl+c"}
    THEN [m |-> mm, cmd |-> "quit"]
    ELSE IF msg.key \in {"up", "k"}
    THEN [m |-> IF mm.selected > 0 THEN [mm EXCEPT !.selected = mm.selected - 1] ELSE mm,
          cmd |-> "nil"]
    ELSE IF msg.key \in {"down", "j"}
    THEN [m |-> [mm EXCEPT !.selected = mm.selected + 1], cmd |-> "nil"]
    ELSE [m |-> mm, cmd |-> "nil"]

\* UpdateKey whose cursor wraps around at both ends of the list
UpdateKey_Wrap(mm, msg) ==
    IF msg.key \in {"q", "ctrl+c"}
    THEN [m |-> mm, cmd |-> "quit"]
    ELSE IF mm.loading \/ mm.err # NoErr \/ Len(mm.files.elems) = 0
    THEN [m |-> mm, cmd |-> "nil"]
    ELSE IF msg.key \in {"up", "k"}
    THEN [m |-> [mm EXCEPT !.selected = (mm.selected + Len(mm.files.elems) - 1)
                                           % Len(mm.files.elems)],
          cmd |-> "nil"]
    ELSE IF msg.key \in {"down", "j"}
    THEN [m |-> [mm EXCEPT !.selected = (mm.selected + 1) % Len(mm.files.elems)],
          cmd |-> "nil"]
    ELSE [m |-> mm, cmd |-> "nil"]

\* Update, case tea.KeyMsg
UpdateKey(mm, msg) ==
    IF msg.key \in {"q", "ctrl+c"}
    THEN [m |-> mm, cmd |-> "quit"]
    ELSE IF mm.loading \/ mm.err # NoErr
    THEN [m |-> mm, cmd |-> "nil"]
    ELSE IF msg.key \in {"up", "k"}
    THEN [m |-> IF mm.selected > 0 THEN [mm EXCEPT !.selected = mm.selected - 1] ELSE mm,
          cmd |-> "nil"]
    ELSE IF msg.key \in {"down", "j"}
    THEN [m |-> IF mm.selected < Len(mm.files.elems) - 1
                THEN [mm EXCEPT !.selected = mm.selected + 1] ELSE mm,
          cmd |-> "nil"]
    ELSE [m |-> mm, cmd |-> "nil"]

\* Update that answers the completion message with a new loadReviewsCmd
Update_Rerun(mm, msg) ==
    CASE msg.type = "WindowSize" -> UpdateWindowSize(mm, msg)
      [] msg.type = "Tick" -> UpdateTick(mm)
      [] msg.type = "reviewLoaded" -> [m |-> UpdateReviewLoaded(mm, msg).m, cmd |-> "load"]
      [] msg.type = "Key" -> UpdateKey(mm, msg)
      [] OTHER -> [m |-> mm, cmd |-> "nil"]

\* Model.Update
Update(mm, msg) ==
    CASE msg.type = "WindowSize" -> UpdateWindowSize(mm, msg)
      [] msg.type = "Tick" -> UpdateTick(mm)
      [] msg.type = "reviewLoaded" -> UpdateReviewLoaded(mm, msg)
      [] msg.type = "Key" -> UpdateKey(mm, msg)
      [] OTHER -> [m |-> mm, cmd |-> "nil"]

\* centerInTerminal: whether the content is centred
centerInTerminal(width, height) == ~(width <= 0 \/ height <= 0)

viewLoading(mm) ==
    [screen |-> "Loading", text |-> "analysing, please wait", frame |-> mm.spinner,
     centered |-> centerInTerminal(mm.width, mm.height)]

viewError(mm) ==
    [screen |-> "Error", text |-> mm.err, frame |-> 0,
     centered |-> centerInTerminal(mm.width, mm.height)]

viewContent(mm) ==
    IF Len(mm.files.elems) = 0
    THEN [screen |-> "Content", text |-> "no staged .go changes", frame |-> 0,
          centered |-> centerInTerminal(mm.width, mm.height)]
    ELSE LET totalWidth == IF mm.width <= 0 THEN 100 ELSE mm.width
             leftWidth == IF totalWidth \div 4 < 20 THEN 20 ELSE totalWidth \div 4
             rightWidth == IF totalWidth - leftWidth - 4 < 20 THEN 20
                           ELSE totalWidth - leftWidth - 4
             reviewMD ==
                 IF mm.selected >= 0 /\ mm.selected < Len(mm.files.elems)
                 THEN LET md == MapGet(mm.reviews, mm.files.elems[mm.selected + 1])
                      IN IF TrimSpace(md) = "" THEN "no review for this file" ELSE md
                 ELSE "no file selected"
         IN [screen |-> "Content", text |-> "file list and review", frame |-> 0,
             centered |-> FALSE, selected |-> mm.selected, review |-> reviewMD,
             leftWidth |-> leftWidth, rightWidth |-> rightWidth]

\* View without the error screen
View_NoErrorScreen(mm) ==
    IF mm.loading THEN viewLoading(mm) ELSE viewContent(mm)

\* Model.View
View(mm) ==
    IF mm.loading THEN viewLoading(mm)
    ELSE IF mm.err # NoErr THEN viewError(mm)
    ELSE viewContent(mm)

----------------------------------------------------------------------------
\* The command returned by loadReviewsCmd, run in its own goroutine. Each
\* action below runs the code from the return of one blocking call up to the
\* start of the next one (or to the return of the reviewLoadedMsg).

\* no subprocess of getFileStagedDiff has returned yet
NoExec == [failed |-> FALSE, out |-> "<none>"]

\* starts: how many times the program has started the command; inflight: the
\* external calls that have started and not returned; replies: what the chat
\* calls that succeeded returned, in the order of the calls; diffExec: what
\* the last subprocess of getFileStagedDiff returned
IdleRun ==
    [pc |-> "idle", files |-> NilSlice, reviews |-> NilMap, idx |-> 0, diff |-> "", err |-> "",
     starts |-> 0, inflight |-> {}, replies |-> <<>>, diffExec |-> NoExec]

\* the call record appended to callLog when a subprocess or a request starts
Call(op, file) == [op |-> op, file |-> file]

\* the calls a step has started, as a set
Started(calls) == {calls[i] : i \in 1..Len(calls)}

\* loadReviewsCmd: return reviewLoadedMsg{err: ...} of a failed GetChangedFiles
ListFailedMsg(err) == reviewLoadedMsg(NilSlice, NilMap, Errorf("list", "", err))

\* the zero-files return with nil in place of the empty slice and map
NoFilesMsg_Nil == reviewLoadedMsg(NilSlice, NilMap, NoErr)

\* loadReviewsCmd: return of the zero-files case
NoFilesMsg == reviewLoadedMsg(Slice(<<>>), MapOf(EmptyKV), NoErr)

\* loadReviewsCmd: return reviewLoadedMsg{err: ...} of a failed getFileStagedDiff
\* (r: the run's locals, of which the code hands over none)
DiffFailedMsg(r, f, err) == reviewLoadedMsg(NilSlice, NilMap, Errorf("diff", f, err))

\* the failed-chat return that hands over what was gathered so far
ChatFailedMsg_Partial(r, f, err) == reviewLoadedMsg(r.files, r.reviews, Errorf("chat", f, err))

\* loadReviewsCmd: return reviewLoadedMsg{err: ...} of a failed provider.Chat
\* (r: the run's locals, of which the code hands over none)
ChatFailedMsg(r, f, err) == reviewLoadedMsg(NilSlice, NilMap, Errorf("chat", f, err))

\* the final return with the file list in reverse order
LoadedMsg_Reversed(files, reviews) ==
    reviewLoadedMsg(Slice([i \in 1..Len(files.elems) |-> files.elems[Len(files.elems) + 1 - i]]),
                    reviews, NoErr)

\* loadReviewsCmd: the final return with files and reviews
LoadedMsg(files, reviews) == reviewLoadedMsg(files, reviews, NoErr)

\* Model.Init: the program that p.Run has started calls it, and starts the
\* spinner tick and the background command it returns
ModelInit ==
    /\ main.pc = "running"
    /\ ~started /\ ~quit
    /\ started' = TRUE
    /\ tickPending' = TRUE
    /\ run' = [run EXCEPT !.pc = "start", !.starts = run.starts + 1]
    /\ UNCHANGED <<m, provider, quit, completion, delivered, callLog>>
    /\ UNCHANGED <<cfgVars, resVars, main>>

\* loadReviewsCmd: the provider check, then the call of gitops.GetChangedFiles
LoadStart ==
    /\ run.pc = "start" /\ ~quit
    /\ IF provider = "nil"
       THEN /\ completion' = reviewLoadedMsg(NilSlice, NilMap, Errorf("provider", "", "not initialised"))
            /\ run' = [run EXCEPT !.pc = "done"]
            /\ UNCHANGED callLog
       ELSE /\ run' = [run EXCEPT !.pc = "list", !.inflight = {Call("list", "")}]
            /\ callLog' = Append(callLog, Call("list", ""))
            /\ UNCHANGED completion
    /\ UNCHANGED <<m, provider, started, quit, tickPending, delivered>>
    /\ UNCHANGED <<cfgVars, resVars, main>>

\* loadReviewsCmd: GetChangedFiles has returned
ListReturn(exec) ==
    /\ run.pc = "list" /\ ~quit
    /\ LET res == GetChangedFiles(exec)
       IN IF res.err # ""
          THEN /\ completion' = ListFailedMsg(res.err)
               /\ run' = [run EXCEPT !.pc = "done", !.err = res.err, !.inflight = {}]
               /\ UNCHANGED callLog
          ELSE IF Len(res.files.elems) = 0
          THEN /\ completion' = NoFilesMsg
               /\ run' = [run EXCEPT !.pc = "done", !.files = res.files, !.inflight = {}]
               /\ UNCHANGED callLog
          ELSE /\ run' = [run EXCEPT !.pc = "diff", !.files = res.files,
                                     !.reviews = MakeMap, !.idx = 1,
                                     !.inflight = {Call("diff", res.files.elems[1])}]
               /\ callLog' = Append(callLog, Call("diff", res.files.elems[1]))
               /\ UNCHANGED completion
    /\ UNCHANGED <<m, provider, started, quit, tickPending, delivered>>
    /\ UNCHANGED <<cfgVars, resVars, main>>

\* the file the loop of loadReviewsCmd takes after the one at idx (0: none left)
NextFile(r) == IF r.idx < Len(r.files.elems) THEN r.idx + 1 ELSE 0

\* the loop body that also starts the diff of the next file while the chat
\* call of f is under way
CallsAfterDiff_Prefetch(r, f) ==
    <<Call("chat", f)>>
        \o (IF NextFile(r) # 0 THEN <<Call("diff", r.files.elems[NextFile(r)])>> ELSE <<>>)

\* loadReviewsCmd: the calls started once the diff of f is at hand
CallsAfterDiff(r, f) == <<Call("chat", f)>>

\* loadReviewsCmd: getFileStagedDiff(f) has returned
DiffReturn(exec) ==
    /\ run.pc = "diff" /\ ~quit
    /\ LET f == run.files.elems[run.idx]
           res == getFileStagedDiff(f, exec)
       IN IF res.err # ""
          THEN /\ completion' = DiffFailedMsg(run, f, res.err)
               /\ run' = [run EXCEPT !.pc = "done", !.err = res.err, !.diffExec = exec,
                                     !.inflight = @ \ {Call("diff", f)}]
               /\ UNCHANGED callLog
          ELSE /\ run' = [run EXCEPT !.pc = "chat", !.diff = res.diff, !.diffExec = exec,
                                     !.inflight = (@ \ {Call("diff", f)})
                                                    \cup Started(CallsAfterDiff(run, f))]
               /\ callLog' = callLog \o CallsAfterDiff(run, f)
               /\ UNCHANGED completion
    /\ UNCHANGED <<m, provider, started, quit, tickPending, delivered>>
    /\ UNCHANGED <<cfgVars, resVars, main>>

\* loadReviewsCmd: provider.Chat(reviewPrompt) has returned
ChatReturn(resp) ==
    /\ run.pc = "chat" /\ ~quit
    /\ LET f == run.files.elems[run.idx]
           res == Chat(buildReviewPrompt(run.diff), resp)
           reviews == MapOf(MapSet(run.reviews.kv, f, res.reply))
       IN IF res.err # ""
          THEN /\ completion' = ChatFailedMsg(run, f, res.err)
               /\ run' = [run EXCEPT !.pc = "done", !.err = res.err,
                                     !.inflight = @ \ {Call("chat", f)}]
               /\ UNCHANGED callLog
          ELSE IF NextFile(run) # 0
          THEN /\ run' = [run EXCEPT !.pc = "diff", !.reviews = reviews, !.idx = NextFile(run),
                                     !.replies = Append(@, res.reply),
                                     !.inflight = (@ \ {Call("chat", f)})
                                        \cup {Call("diff", run.files.elems[NextFile(run)])}]
               /\ callLog' = Append(callLog, Call("diff", run.files.elems[NextFile(run)]))
               /\ UNCHANGED completion
          ELSE /\ completion' = LoadedMsg(run.files, reviews)
               /\ run' = [run EXCEPT !.pc = "done", !.reviews = reviews,
                                     !.replies = Append(@, res.reply),
                                     !.inflight = @ \ {Call("chat", f)}]
               /\ UNCHANGED callLog
    /\ UNCHANGED <<m, provider, started, quit, tickPending, delivered>>
    /\ UNCHANGED <<cfgVars, resVars, main>>

----------------------------------------------------------------------------
\* The program's event loop: one message at a time through Update; the
\* program then runs the command Update returned. The commands of this program
\* are nil, the spinner tick, tea.Quit and the one returned by loadReviewsCmd
\* ("load"), which Model.Init hands over and Update never does.

\* the review run after the program has taken the command cmd: loadReviewsCmd
\* starts the run from its first statement
RunAfter(cmd) ==
    IF cmd = "load" THEN [IdleRun EXCEPT !.pc = "start", !.starts = run.starts + 1] ELSE run

\* the message of the run after the program has taken the command cmd
CompletionAfter(cmd) == IF cmd = "load" THEN NoMsg ELSE completion

\* a tea.WindowSizeMsg arrives
Resize(w, h) ==
    /\ started /\ ~quit
    /\ m' = Update(m, WindowSizeMsg(w, h)).m
    /\ run' = RunAfter(Update(m, WindowSizeMsg(w, h)).cmd)
    /\ completion' = CompletionAfter(Update(m, WindowSizeMsg(w, h)).cmd)
    /\ UNCHANGED <<provider, started, quit, tickPending, delivered, callLog>>
    /\ UNCHANGED <<cfgVars, resVars, main>>

\* the outstanding spinner.TickMsg arrives; the command Update returns is the next tick
Tick ==
    /\ started /\ ~quit /\ tickPending
    /\ m' = Update(m, TickMsg).m
    /\ tickPending' = (Update(m, TickMsg).cmd = "tick")
    /\ run' = RunAfter(Update(m, TickMsg).cmd)
    /\ completion' = CompletionAfter(Update(m, TickMsg).cmd)
    /\ UNCHANGED <<provider, started, quit, delivered, callLog>>
    /\ UNCHANGED <<cfgVars, resVars, main>>

\* the reviewLoadedMsg returned by the command arrives: the program sends the
\* message a command returns once
ReviewLoaded ==
    /\ started /\ ~quit
    /\ completion # NoMsg /\ delivered < run.starts
    /\ m' = Update(m, completion).m
    /\ delivered' = delivered + 1
    /\ run' = RunAfter(Update(m, completion).cmd)
    /\ completion' = CompletionAfter(Update(m, completion).cmd)
    /\ UNCHANGED <<provider, started, quit, tickPending, callLog>>
    /\ UNCHANGED <<cfgVars, resVars, main>>

\* a tea.KeyMsg arrives
Key(key) ==
    /\ started /\ ~quit
    /\ m' = Update(m, KeyMsg(key)).m
    /\ quit' = (Update(m, KeyMsg(key)).cmd = "quit")
    /\ run' = RunAfter(Update(m, KeyMsg(key)).cmd)
    /\ completion' = CompletionAfter(Update(m, KeyMsg(key)).cmd)
    /\ UNCHANGED <<provider, started, tickPending, delivered, callLog>>
    /\ UNCHANGED <<cfgVars, resVars, main>>

----------------------------------------------------------------------------
\* The configuration document ~/.review-go.yaml.
\*
\* kind: "absent" (no file), "unreadable" (os.ReadFile fails), "corrupt" (not
\* YAML), "empty" (no YAML document in the file: yaml.Unmarshal leaves the map
\* nil) or "map" (a YAML mapping). Nil stands for a key that is missing or null.

Nil == "<nil>"
NoProviders == [n \in {} |-> [api_key |-> Nil, base_url |-> Nil, model |-> Nil]]
NewEntry == [api_key |-> Nil, base_url |-> Nil, model |-> Nil]

BlankDoc(kind) ==
    [kind |-> kind, provider |-> Nil, hasProviders |-> FALSE, providers |-> NoProviders,
     api_key |-> Nil, base_url |-> Nil, model |-> Nil]

AbsentDoc == BlankDoc("absent")

\* the value of a string field after unmarshalling: missing or null is ""
Str(x) == IF x = Nil THEN "" ELSE x

----------------------------------------------------------------------------
\* config.Load (viper) and ai.NewProvider.

defaultModel == "gpt-4o-mini"

ZeroConfig ==
    [Provider |-> "", Providers |-> [n \in {} |-> [APIKey |-> "", BaseURL |-> "", Model |-> ""]],
     APIKey |-> "", BaseURL |-> "", Model |-> ""]

\* mapstructure decoding of one providers entry
ProviderConfig(e) ==
    [APIKey |-> Str(e.api_key), BaseURL |-> Str(e.base_url), Model |-> Str(e.model)]

\* viper.ReadInConfig: configuration keys are case-insensitive, every key of the
\* document (nested ones too) is stored in lower case; where a key and its
\* lower-case form are both present, the value of the one that is not lower
\* case is kept
InsensitiviseKeys(ps) ==
    [k \in {ToLower(n) : n \in DOMAIN ps} |->
        LET other == {n \in DOMAIN ps : ToLower(n) = k /\ n # k}
        IN IF other # {} THEN ps[CHOOSE n \in other : TRUE] ELSE ps[k]]

\* v.ReadInConfig and v.Unmarshal(&cfg) on a document that parses
Unmarshal(d) ==
    LET ps == IF d.hasProviders THEN InsensitiviseKeys(d.providers) ELSE NoProviders
    IN [Provider |-> Str(d.provider),
        Providers |-> [k \in DOMAIN ps |-> ProviderConfig(ps[k])],
        APIKey |-> Str(d.api_key), BaseURL |-> Str(d.base_url), Model |-> Str(d.model)]

LoadFailed(err) == [isNil |-> TRUE, cfg |-> ZeroConfig, err |-> err]

\* LoadProviders without the check of the selected profile's api_key
LoadProviders_NoKeyCheck(cfg) ==
    IF cfg.Provider = ""
    THEN LoadFailed("provider is empty")
    ELSE IF cfg.Provider \notin DOMAIN cfg.Providers
    THEN LoadFailed("provider not found under providers")
    ELSE [isNil |-> FALSE,
          cfg |-> [cfg EXCEPT !.APIKey = cfg.Providers[cfg.Provider].APIKey,
                              !.BaseURL = cfg.Providers[cfg.Provider].BaseURL,
                              !.Model = cfg.Providers[cfg.Provider].Model],
          err |-> ""]

\* Load, the multi-provider branch
LoadProviders(cfg) ==
    IF cfg.Provider = ""
    THEN LoadFailed("provider is empty")
    ELSE IF cfg.Provider \notin DOMAIN cfg.Providers
    THEN LoadFailed("provider not found under providers")
    ELSE IF cfg.Providers[cfg.Provider].APIKey = ""
    THEN LoadFailed("api_key for provider is empty")
    ELSE [isNil |-> FALSE,
          cfg |-> [cfg EXCEPT !.APIKey = cfg.Providers[cfg.Provider].APIKey,
                              !.BaseURL = cfg.Providers[cfg.Provider].BaseURL,
                              !.Model = cfg.Providers[cfg.Provider].Model],
          err |-> ""]

\* LoadFlat that also insists on a provider name
LoadFlat_NeedsProvider(cfg) ==
    IF cfg.APIKey = "" \/ cfg.Provider = ""
    THEN LoadFailed("api_key is empty")
    ELSE [isNil |-> FALSE, cfg |-> cfg, err |-> ""]

\* Load, the flat branch
LoadFlat(cfg) ==
    IF cfg.APIKey = ""
    THEN LoadFailed("api_key is empty")
    ELSE [isNil |-> FALSE, cfg |-> cfg, err |-> ""]

\* config.Load
Load(d) ==
    IF d.kind \in {"absent", "unreadable", "corrupt"}
    THEN LoadFailed("read config file")
    ELSE LET cfg == Unmarshal(d)
         IN IF Cardinality(DOMAIN cfg.Providers) > 0
            THEN LoadProviders(cfg)
            ELSE LoadFlat(cfg)

\* ai.NewOpenAICompatibleProvider
NewOpenAICompatibleProvider(baseURL, apiKey, model) ==
    IF TrimSpace(apiKey) = ""
    THEN [isNil |-> TRUE, err |-> "apiKey is empty", apiKey |-> "", baseURL |-> "", model |-> ""]
    ELSE [isNil |-> FALSE, err |-> "", apiKey |-> TrimSpace(apiKey),
          baseURL |-> TrimSpace(baseURL),
          model |-> IF TrimSpace(model) = "" THEN defaultModel ELSE TrimSpace(model)]

\* FillDefaults that knows "qwen" but none of its other names
FillDefaults_NoAliases(providerName, baseURL, model) ==
    CASE providerName = "deepseek" ->
           [baseURL |-> IF baseURL = "" THEN "https://api.deepseek.com" ELSE baseURL,
            model |-> IF model = "" THEN "deepseek-coder" ELSE model]
      [] providerName = "qwen" ->
           [baseURL |-> IF baseURL = ""
                        THEN "https://dashscope.aliyuncs.com/compatible-mode/v1" ELSE baseURL,
            model |-> IF model = "" THEN "qwen-turbo" ELSE model]
      [] OTHER ->
           [baseURL |-> baseURL, model |-> IF model = "" THEN defaultModel ELSE model]

\* NewProvider, the switch on the provider name: the filled (baseURL, model)
FillDefaults(providerName, baseURL, model) ==
    CASE providerName = "deepseek" ->
           [baseURL |-> IF baseURL = "" THEN "https://api.deepseek.com" ELSE baseURL,
            model |-> IF model = "" THEN "deepseek-coder" ELSE model]
      [] providerName \in {"qwen", "tongyi", "ali", "aliyun"} ->
           [baseURL |-> IF baseURL = ""
                        THEN "https://dashscope.aliyuncs.com/compatible-mode/v1" ELSE baseURL,
            model |-> IF model = "" THEN "qwen-turbo" ELSE model]
      [] providerName \in {"openai", ""} ->
           [baseURL |-> baseURL, model |-> IF model = "" THEN defaultModel ELSE model]
      [] OTHER ->
           [baseURL |-> baseURL, model |-> IF model = "" THEN defaultModel ELSE model]

\* NewProvider that passes model and baseURL in each other's place
NewProvider_SwappedArgs(cfg) ==
    IF TrimSpace(cfg.APIKey) = ""
    THEN [isNil |-> TRUE, err |-> "api_key is empty", apiKey |-> "", baseURL |-> "", model |-> ""]
    ELSE LET filled == FillDefaults(ToLower(TrimSpace(cfg.Provider)),
                                    TrimSpace(cfg.BaseURL), TrimSpace(cfg.Model))
         IN NewOpenAICompatibleProvider(filled.model, TrimSpace(cfg.APIKey), filled.baseURL)

\* ai.NewProvider
NewProvider(cfg) ==
    IF TrimSpace(cfg.APIKey) = ""
    THEN [isNil |-> TRUE, err |-> "api_key is empty", apiKey |-> "", baseURL |-> "", model |-> ""]
    ELSE LET filled == FillDefaults(ToLower(TrimSpace(cfg.Provider)),
                                    TrimSpace(cfg.BaseURL), TrimSpace(cfg.Model))
         IN NewOpenAICompatibleProvider(filled.baseURL, TrimSpace(cfg.APIKey), filled.model)

----------------------------------------------------------------------------
\* cmd/config.go: `config set-key` and `config set-provider`.

\* the existing configuration as both commands read it: os.Stat, os.ReadFile,
\* yaml.Unmarshal into a map[string]interface{}
ReadConfig(d) ==
    CASE d.kind = "unreadable" -> [err |-> "read config file", isNil |-> TRUE, config |-> d]
      [] d.kind = "corrupt" -> [err |-> "parse config file", isNil |-> TRUE, config |-> d]
      [] d.kind = "empty" -> [err |-> "", isNil |-> TRUE, config |-> d]
      [] d.kind = "absent" -> [err |-> "", isNil |-> FALSE, config |-> BlankDoc("map")]
      [] OTHER -> [err |-> "", isNil |-> FALSE, config |-> d]

\* SetKeyDefaults that writes the defaults of a recognized name over the values
\* the entry has
SetKeyDefaults_Overwrite(prov, e) ==
    CASE prov = "deepseek" ->
           [e EXCEPT !.base_url = "https://api.deepseek.com", !.model = "deepseek-coder"]
      [] prov \in {"qwen", "tongyi", "ali", "aliyun"} ->
           [e EXCEPT !.base_url = "https://dashscope.aliyuncs.com/compatible-mode/v1",
                     !.model = "qwen-turbo"]
      [] prov = "openai" -> [e EXCEPT !.model = "gpt-4o-mini"]
      [] OTHER -> e

\* set-key: the defaults written for a provider entry that has no base_url
SetKeyDefaults(prov, e) ==
    IF e.base_url # Nil THEN e
    ELSE CASE prov = "deepseek" ->
                [e EXCEPT !.base_url = "https://api.deepseek.com",
                          !.model = IF e.model = Nil THEN "deepseek-coder" ELSE e.model]
           [] prov \in {"qwen", "tongyi", "ali", "aliyun"} ->
                [e EXCEPT !.base_url = "https://dashscope.aliyuncs.com/compatible-mode/v1",
                          !.model = IF e.model = Nil THEN "qwen-turbo" ELSE e.model]
           [] prov = "openai" ->
                [e EXCEPT !.model = IF e.model = Nil THEN "gpt-4o-mini" ELSE e.model]
           [] OTHER -> e

\* SetKeyDefaultProvider that makes prov the default provider every time
SetKeyDefaultProvider_Always(c, prov) == prov

\* SetKeyDefaultProvider that never sets the default provider
SetKeyDefaultProvider_Never(c, prov) == c.provider

\* set-key: the default provider after the key of prov was set
SetKeyDefaultProvider(c, prov) ==
    IF c.provider = Nil \/ c.provider = "" THEN prov ELSE c.provider

\* set-key with --provider: the patched map
SetKeyProvider(c, apiKey, prov) ==
    LET providers == IF c.hasProviders THEN c.providers ELSE NoProviders
        existing == IF prov \in DOMAIN providers THEN providers[prov] ELSE NewEntry
        providerConfig == SetKeyDefaults(prov, [existing EXCEPT !.api_key = apiKey])
    IN [c EXCEPT !.hasProviders = TRUE,
                 !.providers = MapSet(providers, prov, providerConfig),
                 !.provider = SetKeyDefaultProvider(c, prov)]

\* set-key without --provider: the patched map
SetKeyFlat(c, apiKey) == [c EXCEPT !.api_key = apiKey]

Outcome(d, err, wrote) == [doc |-> d, err |-> err, wrote |-> wrote]

\* setKeyCmd.RunE; writeOK: os.WriteFile succeeds
SetKey(d, apiKey, prov, writeOK) ==
    LET rd == ReadConfig(d)
        patched == IF prov # "" THEN SetKeyProvider(rd.config, apiKey, prov)
                   ELSE SetKeyFlat(rd.config, apiKey)
    IN IF rd.err # "" THEN Outcome(d, rd.err, FALSE)
       ELSE IF rd.isNil THEN Outcome(d, "panic: assignment to entry in nil map", FALSE)
       ELSE IF ~writeOK THEN Outcome(d, "write config file", FALSE)
       ELSE Outcome(patched, "", TRUE)

\* SetProvider without the check that prov is a key of the providers map
SetProvider_NoKeyCheck(d, prov, writeOK) ==
    LET rd == ReadConfig(d)
    IN IF d.kind = "absent" THEN Outcome(d, "config file does not exist", FALSE)
       ELSE IF rd.err # "" THEN Outcome(d, rd.err, FALSE)
       ELSE IF rd.isNil \/ ~rd.config.hasProviders
       THEN Outcome(d, "no providers map", FALSE)
       ELSE IF ~writeOK THEN Outcome(d, "write config file", FALSE)
       ELSE Outcome([rd.config EXCEPT !.provider = prov], "", TRUE)

\* SetProvider that writes the providers map and the default provider only
SetProvider_DropFlat(d, prov, writeOK) ==
    LET rd == ReadConfig(d)
    IN IF d.kind = "absent" THEN Outcome(d, "config file does not exist", FALSE)
       ELSE IF rd.err # "" THEN Outcome(d, rd.err, FALSE)
       ELSE IF rd.isNil \/ ~rd.config.hasProviders
       THEN Outcome(d, "no providers map", FALSE)
       ELSE IF prov \notin DOMAIN rd.config.providers
       THEN Outcome(d, "provider does not exist", FALSE)
       ELSE IF ~writeOK THEN Outcome(d, "write config file", FALSE)
       ELSE Outcome([BlankDoc("map") EXCEPT !.provider = prov, !.hasProviders = TRUE,
                                            !.providers = rd.config.providers], "", TRUE)

\* setProviderCmd.RunE; writeOK: os.WriteFile succeeds
SetProvider(d, prov, writeOK) ==
    LET rd == ReadConfig(d)
    IN IF d.kind = "absent" THEN Outcome(d, "config file does not exist", FALSE)
       ELSE IF rd.err # "" THEN Outcome(d, rd.err, FALSE)
       ELSE IF rd.isNil \/ ~rd.config.hasProviders
       THEN Outcome(d, "no providers map", FALSE)
       ELSE IF prov \notin DOMAIN rd.config.providers
       THEN Outcome(d, "provider does not exist", FALSE)
       ELSE IF ~writeOK THEN Outcome(d, "write config file", FALSE)
       ELSE Outcome([rd.config EXCEPT !.provider = prov], "", TRUE)

----------------------------------------------------------------------------
\* The documents the commands may find, and the commands' arguments.

InitEntries ==
    { [api_key |-> "K0", base_url |-> Nil, model |-> Nil],
      [api_key |-> "K0", base_url |-> Nil, model |-> "M0"],
      [api_key |-> "", base_url |-> "U0", model |-> "M0"] }

InitProviders ==
    {NoProviders}
    \cup { [n \in {k} |-> e] : k \in {"deepseek", "myllm"}, e \in InitEntries }
    \cup { [n \in {"deepseek", "myllm"} |-> IF n = "deepseek" THEN e1 ELSE e2] :
             e1 \in InitEntries, e2 \in InitEntries }

InitDocs ==
    { BlankDoc(k) : k \in {"absent", "unreadable", "corrupt", "empty", "map"} }
    \cup
    { [kind |-> "map", provider |-> p, hasProviders |-> TRUE, providers |-> ps,
       api_key |-> k, base_url |-> Nil, model |-> Nil] :
        p \in {Nil, "", "deepseek", "myllm"}, ps \in InitProviders, k \in {Nil} }
    \cup
    { [kind |-> "map", provider |-> p, hasProviders |-> FALSE, providers |-> NoProviders,
       api_key |-> k, base_url |-> u, model |-> Nil] :
        p \in {Nil, "", "myllm"}, k \in {Nil, "", "K0"}, u \in {Nil, "U0"} }

CmdProviders == {"deepseek", "DeepSeek", "qwen", "openai", "myllm"}
CmdKeys == {"", " ", "K1"}

\* the last command run: its arguments, its outcome, the document it found;
\* fresh: the first command found no document, and every command so far
\* succeeded, set-key with a key that is not the empty string
NoCmd == [cmd |-> "none", key |-> "", provider |-> "", err |-> "", wrote |-> FALSE,
          before |-> AbsentDoc, fresh |-> FALSE]

Fresh(o, keyGiven) ==
    /\ IF ncmds = 0 THEN doc.kind = "absent" ELSE last.fresh
    /\ o.err = "" /\ keyGiven
NotLoaded == [state |-> "none"]

\* `review-go config set-key apiKey [--provider prov]`
CmdSetKey(apiKey, prov, writeOK) ==
    /\ ncmds < MaxCmds
    /\ LET o == SetKey(doc, apiKey, prov, writeOK)
       IN /\ doc' = o.doc
          /\ last' = [cmd |-> "set-key", key |-> apiKey, provider |-> prov, err |-> o.err,
                      wrote |-> o.wrote, before |-> doc, fresh |-> Fresh(o, apiKey # "")]
    /\ ncmds' = ncmds + 1
    /\ loaded' = NotLoaded
    /\ UNCHANGED <<race, uiVars, resVars, main>>

\* `review-go config set-provider prov`
CmdSetProvider(prov, writeOK) ==
    /\ ncmds < MaxCmds
    /\ LET o == SetProvider(doc, prov, writeOK)
       IN /\ doc' = o.doc
          /\ last' = [cmd |-> "set-provider", key |-> "", provider |-> prov, err |-> o.err,
                      wrote |-> o.wrote, before |-> doc, fresh |-> Fresh(o, TRUE)]
    /\ ncmds' = ncmds + 1
    /\ loaded' = NotLoaded
    /\ UNCHANGED <<race, uiVars, resVars, main>>

\* rootCmd.RunE up to the creation of the model: config.Load, then ai.NewProvider
RootCmd ==
    /\ loaded = NotLoaded
    /\ LET res == Load(doc)
       IN loaded' = [state |-> "loaded", isNil |-> res.isNil, cfg |-> res.cfg,
                     err |-> res.err,
                     provider |-> IF res.isNil THEN NewProvider(ZeroConfig)
                                  ELSE NewProvider(res.cfg)]
    /\ UNCHANGED <<doc, last, ncmds, race, uiVars, resVars, main>>

----------------------------------------------------------------------------
\* Two `config set-key` processes on the same file. setKeyCmd.RunE reads the
\* file, patches the map in memory and writes the file; it takes no lock, so
\* the steps of two processes interleave at the file operations.
\*
\* pc: "off" (no such process), "start", "read" (the file was read and
\* unmarshalled), "done", "failed"; config: the document the process read;
\* initial: the document before either process; overlap: one process read
\* the file after the other had read it and before the other wrote it;
\* writes: the processes in the order of their writes.

NoArgs == [key |-> "", provider |-> ""]

NoRace ==
    [pc |-> <<"off", "off">>, args |-> <<NoArgs, NoArgs>>,
     config |-> <<AbsentDoc, AbsentDoc>>, err |-> <<"", "">>,
     initial |-> AbsentDoc, overlap |-> FALSE, writes |-> <<>>]

RaceProviders == {"deepseek", "qwen", "myllm"}

\* setKeyCmd.RunE, the read: os.Stat, os.ReadFile, yaml.Unmarshal
RaceRead(i) ==
    /\ race.pc[i] = "start"
    /\ LET rd == ReadConfig(doc)
       IN race' = IF rd.err # ""
                  THEN [race EXCEPT !.pc[i] = "failed", !.err[i] = rd.err]
                  ELSE [race EXCEPT !.pc[i] = "read", !.config[i] = doc,
                                    !.overlap = @ \/ race.pc[3 - i] = "read"]
    /\ UNCHANGED <<doc, last, ncmds, loaded, uiVars, resVars, main>>

\* WriteBack that reads the file again before it patches and writes
WriteBack_Reread(config, current, apiKey, prov, writeOK) ==
    SetKey(current, apiKey, prov, writeOK)

\* setKeyCmd.RunE after the read: the map read before is patched, marshalled
\* and written over the file, whatever the file holds by then
WriteBack(config, current, apiKey, prov, writeOK) ==
    SetKey(config, apiKey, prov, writeOK)

\* setKeyCmd.RunE, the patch and os.WriteFile
RaceWrite(i, writeOK) ==
    /\ race.pc[i] = "read"
    /\ LET o == WriteBack(race.config[i], doc, race.args[i].key, race.args[i].provider,
                          writeOK)
       IN /\ doc' = IF o.err = "" THEN o.doc ELSE doc
          /\ race' = [race EXCEPT !.pc[i] = IF o.err = "" THEN "done" ELSE "failed",
                                  !.err[i] = o.err,
                                  !.writes = IF o.err = "" THEN Append(@, i) ELSE @]
    /\ UNCHANGED <<last, ncmds, loaded, uiVars, resVars, main>>

----------------------------------------------------------------------------
\* The process of the root command: main, then rootCmd.RunE, then the session.
\*
\* pc: "main" (main not yet run), "execute" (cmd.Execute called), "running"
\* (p.Run has the session), "exited"; exit: the exit code, -1 while running.

MainStart == [pc |-> "main", loads |-> 0, warned |-> FALSE, err |-> "", exit |-> -1]

\* the process as the session finds it: p.Run called after two loads
Launched == [pc |-> "running", loads |-> 2, warned |-> FALSE, err |-> "", exit |-> -1]

\* main that loads again when the first load failed
MainPreload_Retry(d) ==
    [loads |-> IF Load(d).err # "" THEN 2 ELSE 1, warned |-> Load(d).err # ""]

\* main before cmd.Execute: config.Load, its result dropped, a failure logged
\* as a warning
MainPreload(d) == [loads |-> 1, warned |-> Load(d).err # ""]

\* RunE that creates the model although ai.NewProvider returned an error
RunE_IgnoreProviderErr(d) ==
    LET res == Load(d)
    IN IF res.err # ""
       THEN [loads |-> 1, launch |-> FALSE, err |-> "load config failed", provider |-> "nil"]
       ELSE [loads |-> 1, launch |-> TRUE, err |-> "",
             provider |-> IF NewProvider(res.cfg).err # "" THEN "nil" ELSE "llm"]

\* rootCmd.RunE up to p.Run: config.Load, ai.NewProvider, ui.NewModel
RunE(d) ==
    LET res == Load(d)
    IN IF res.err # ""
       THEN [loads |-> 1, launch |-> FALSE, err |-> "load config failed", provider |-> "nil"]
       ELSE IF NewProvider(res.cfg).err # ""
       THEN [loads |-> 1, launch |-> FALSE, err |-> "init provider failed", provider |-> "nil"]
       ELSE [loads |-> 1, launch |-> TRUE, err |-> "", provider |-> "llm"]

\* main up to the call of cmd.Execute
MainLoad ==
    /\ main.pc = "main"
    /\ main' = [main EXCEPT !.pc = "execute", !.loads = @ + MainPreload(doc).loads,
                            !.warned = MainPreload(doc).warned]
    /\ UNCHANGED <<uiVars, cfgVars, resVars>>

\* cmd.Execute: rootCmd.RunE runs up to p.Run, or returns an error and main
\* ends the process with log.Fatal
Execute ==
    /\ main.pc = "execute"
    /\ LET r == RunE(doc)
       IN /\ main' = [main EXCEPT !.pc = IF r.launch THEN "running" ELSE "exited",
                                  !.loads = @ + r.loads,
                                  !.err = r.err,
                                  !.exit = IF r.launch THEN -1 ELSE 1]
          /\ provider' = r.provider
          /\ m' = IF r.launch THEN NewModel ELSE m
    /\ UNCHANGED <<started, quit, tickPending, run, completion, delivered, callLog>>
    /\ UNCHANGED <<cfgVars, resVars>>

\* the session has quit: p.Run and RunE return nil, main returns
ProgramExit ==
    /\ main.pc = "running" /\ quit
    /\ main' = [main EXCEPT !.pc = "exited", !.exit = 0]
    /\ UNCHANGED <<uiVars, cfgVars, resVars>>

\* the documents the root command may find
MainDocs ==
    { d \in InitDocs : Load(d).err # "" }
    \cup
    { [BlankDoc("map") EXCEPT !.api_key = " "] }
    \cup
    { [BlankDoc("map") EXCEPT !.provider = "deepseek", !.hasProviders = TRUE,
                             !.providers = [n \in {"deepseek"} |-> e]] :
        e \in { [api_key |-> k, base_url |-> Nil, model |-> Nil] : k \in {" ", "K0"} } }

----------------------------------------------------------------------------
\* ai.NewProvider on its own, over every input of the model.

ResolveNames ==
    {"", "openai", "OpenAI", "deepseek", "DeepSeek", "qwen", " qwen ", "tongyi", "ali",
     "aliyun", "myllm"}
ResolveKeys == {"", " ", "K1", " K1 "}
ResolveURLs == {"", " ", "U1", " U1 "}
ResolveModels == {"", " ", "M1", " M1 "}

ResolveInputs ==
    { [Provider |-> n, Providers |-> ZeroConfig.Providers, APIKey |-> k, BaseURL |-> u,
       Model |-> mo] :
        n \in ResolveNames, k \in ResolveKeys, u \in ResolveURLs, mo \in ResolveModels }

NoResolve == [isNil |-> TRUE, err |-> "not resolved", apiKey |-> "", baseURL |-> "", model |-> ""]

\* NewProvider(cfg)
Resolve ==
    /\ rout = NoResolve
    /\ rout' = NewProvider(rcfg)
    /\ UNCHANGED <<rcfg, rout2, uiVars, cfgVars, main>>

\* NewProvider on a configuration that holds the values resolved before
ResolveAgain ==
    /\ rout # NoResolve /\ ~rout.isNil /\ rout2 = NoResolve
    /\ rout2' = NewProvider([rcfg EXCEPT !.APIKey = rout.apiKey, !.BaseURL = rout.baseURL,
                                         !.Model = rout.model])
    /\ UNCHANGED <<rcfg, rout, uiVars, cfgVars, main>>

----------------------------------------------------------------------------
\* Specifications.

InitSession ==
    /\ m = NewModel
    /\ provider \in {"nil", "llm"}
    /\ started = FALSE
    /\ quit = FALSE
    /\ tickPending = FALSE
    /\ run = IdleRun
    /\ completion = NoMsg
    /\ delivered = 0
    /\ callLog = <<>>

InitConfig ==
    /\ doc \in InitDocs
    /\ last = NoCmd
    /\ ncmds = 0
    /\ loaded = NotLoaded
    /\ race = NoRace

InitResolve ==
    /\ rcfg \in ResolveInputs
    /\ rout = NoResolve
    /\ rout2 = NoResolve

\* the interactive session with its background review run
Init ==
    /\ InitSession
    /\ main = Launched
    /\ doc = AbsentDoc /\ last = NoCmd /\ ncmds = 0 /\ loaded = NotLoaded /\ race = NoRace
    /\ rcfg = ZeroConfig /\ rout = NoResolve /\ rout2 = NoResolve

Next ==
    \/ ModelInit
    \/ LoadStart
    \/ \E exec \in ListExecs : ListReturn(exec)
    \/ \E exec \in DiffExecs : DiffReturn(exec)
    \/ \E resp \in ChatResponses : ChatReturn(resp)
    \/ \E w \in Widths, h \in Heights : Resize(w, h)
    \/ Tick
    \/ ReviewLoaded
    \/ \E key \in Keys : Key(key)

Spec == Init /\ [][Next]_vars

\* the next step of the background run, from the program's call of Model.Init
\* to the delivery of the command's message: the goroutine of the command
\* runs, a subprocess or a chat request returns, the program hands the
\* message to Update
RunStep ==
    \/ ModelInit
    \/ LoadStart
    \/ run.pc = "list" /\ \E exec \in ListExecs : ListReturn(exec)
    \/ run.pc = "diff" /\ \E exec \in DiffExecs : DiffReturn(exec)
    \/ run.pc = "chat" /\ \E resp \in ChatResponses : ChatReturn(resp)
    \/ ReviewLoaded

\* every call of the run returns and the runtime schedules the run: a step
\* of the run that stays possible is eventually taken
Returning == WF_vars(RunStep)

SpecLive == Init /\ [][Next]_vars /\ Returning

\* the configuration commands and the root command's load
InitCfg ==
    /\ InitConfig
    /\ InitSession /\ provider = "llm"
    /\ main = MainStart
    /\ rcfg = ZeroConfig /\ rout = NoResolve /\ rout2 = NoResolve

NextCfg ==
    \/ \E k \in CmdKeys, p \in CmdProviders \cup {""}, w \in BOOLEAN : CmdSetKey(k, p, w)
    \/ \E p \in CmdProviders, w \in BOOLEAN : CmdSetProvider(p, w)
    \/ RootCmd

SpecCfg == InitCfg /\ [][NextCfg]_vars

\* two concurrent `config set-key KA --provider p1` and
\* `config set-key KB --provider p2`
InitRace ==
    /\ doc \in InitDocs /\ last = NoCmd /\ ncmds = 0 /\ loaded = NotLoaded
    /\ \E p1 \in RaceProviders, p2 \in RaceProviders :
          race = [NoRace EXCEPT !.pc = <<"start", "start">>,
                                !.args = << [key |-> "KA", provider |-> p1],
                                            [key |-> "KB", provider |-> p2] >>,
                                !.initial = doc]
    /\ InitSession /\ provider = "llm"
    /\ main = MainStart
    /\ rcfg = ZeroConfig /\ rout = NoResolve /\ rout2 = NoResolve

NextRace ==
    \/ \E i \in {1, 2} : RaceRead(i)
    \/ \E i \in {1, 2}, w \in BOOLEAN : RaceWrite(i, w)

SpecRace == InitRace /\ [][NextRace]_vars

\* the provider resolver as a function of its input
InitRes ==
    /\ InitResolve
    /\ InitSession /\ provider = "llm"
    /\ main = MainStart
    /\ doc = AbsentDoc /\ last = NoCmd /\ ncmds = 0 /\ loaded = NotLoaded /\ race = NoRace

NextRes == Resolve \/ ResolveAgain

SpecRes == InitRes /\ [][NextRes]_vars

\* the root command from main to the end of the process
InitMain ==
    /\ main = MainStart
    /\ InitSession /\ provider = "nil"
    /\ doc \in MainDocs /\ last = NoCmd /\ ncmds = 0 /\ loaded = NotLoaded /\ race = NoRace
    /\ rcfg = ZeroConfig /\ rout = NoResolve /\ rout2 = NoResolve

NextMain ==
    \/ MainLoad
    \/ Execute
    \/ ProgramExit
    \/ Next

SpecMain == InitMain /\ [][NextMain]_vars

----------------------------------------------------------------------------
\* Properties of the interactive session and its review run (Spec).

NumFiles == Len(m.files.elems)

\* C1: whenever the stored file list is non-empty, 0 <= selected < len(files),
\* in every state reachable by ticks, resizes, key presses and the completion
\* message.
C1_SelectedInRange == NumFiles > 0 => (0 <= m.selected /\ m.selected < NumFiles)

\* C1 witness: the cursor was moved by navigation keys to the last of several files
C1_Witness == ~m.loading /\ NumFiles >= 2 /\ m.selected = NumFiles - 1

\* the calls of a run over files that failed at its k-th file, in `kind`
RECURSIVE CallsUpTo(_, _)
CallsUpTo(files, k) ==
    IF k = 0 THEN <<Call("list", "")>>
    ELSE CallsUpTo(files, k - 1) \o <<Call("diff", files[k]), Call("chat", files[k])>>

CallsOfFailedRun(files, k, kind) ==
    CallsUpTo(files, k - 1)
        \o (IF kind = "diff" THEN <<Call("diff", files[k])>>
            ELSE <<Call("diff", files[k]), Call("chat", files[k])>>)

RunFailedAtFile == completion # NoMsg /\ completion.err.kind \in {"diff", "chat"}

\* C2: when the diff fetch or the chat call of file k fails, the run has
\* stopped at file k (the calls made are exactly those of files 1..k, none for
\* a later file), the completion message carries no file list and no result
\* mapping, its error is the failure of file k wrapped with the name of file
\* k, and the session that receives it stores no file and no review.
C2_ShortCircuit ==
    RunFailedAtFile =>
        /\ run.pc = "done"
        /\ callLog = CallsOfFailedRun(run.files.elems, run.idx, completion.err.kind)
        /\ completion.files = NilSlice
        /\ completion.reviews = NilMap
        /\ completion.err = Errorf(completion.err.kind, run.files.elems[run.idx], run.err)
        /\ run.err # ""
        /\ delivered > 0 =>
              /\ m.err = completion.err
              /\ m.files = NilSlice
              /\ m.reviews = MakeMap

\* C2 witness: the chat call of the second of three files failed after the
\* first file was reviewed, and the session has received the message
C2_Witness ==
    /\ RunFailedAtFile /\ completion.err.kind = "chat"
    /\ run.idx = 2 /\ Len(run.files.elems) = 3
    /\ DOMAIN run.reviews.kv # {}
    /\ delivered = 1

ListedNoFiles ==
    run.pc \notin {"idle", "start", "list"} /\ ~run.files.isNil /\ Len(run.files.elems) = 0

\* C9: with zero staged files the run makes no diff fetch and no chat call and
\* returns an empty (non-nil) file list, an empty mapping and no error; once
\* the session has received it, it shows Content with the "no changes" text.
C9_NoStagedFiles ==
    ListedNoFiles =>
        /\ callLog = <<Call("list", "")>>
        /\ run.pc = "done"
        /\ completion = reviewLoadedMsg(Slice(<<>>), MapOf(EmptyKV), NoErr)
        /\ delivered > 0 =>
              /\ View(m).screen = "Content"
              /\ View(m).text = "no staged .go changes"
              /\ m.files = Slice(<<>>) /\ m.reviews = MapOf(EmptyKV) /\ m.err = NoErr

\* C9 witness: the session has received the completion message of a run that
\* listed no file
C9_Witness == ListedNoFiles /\ delivered = 1 /\ View(m).text = "no staged .go changes"

\* C10: the step that hands the completion message to Update happens in
\* Loading and leads to Error if the message carries an error, else to Content
\* with the message's file list and mapping stored; and no step leaves Error.
C10_CompletionTransition ==
    [][ /\ delivered' # delivered =>
            /\ View(m).screen = "Loading"
            /\ IF completion.err # NoErr
               THEN View(m').screen = "Error"
               ELSE /\ View(m').screen = "Content"
                    /\ m'.files = completion.files
                    /\ m'.reviews = completion.reviews
        /\ View(m).screen = "Error" => View(m').screen = "Error" ]_vars

\* C10 witness: in Error, after the completion message, a resize and the last
\* spinner tick were handled
C10_Witness ==
    /\ View(m).screen = "Error" /\ delivered = 1
    /\ ~tickPending /\ m.width = 120 /\ ~quit

Schedule(files) == CallsUpTo(files, Len(files))

\* C17: the calls of the run are started in the order list, diff of file 1,
\* chat of file 1, diff of file 2, chat of file 2, ...; a call is started only
\* when every call before it has returned, so at most one call (the last one
\* started) is in flight.
C17_Sequential ==
    /\ Len(callLog) <= Len(Schedule(run.files.elems))
    /\ callLog = SubSeq(Schedule(run.files.elems), 1, Len(callLog))
    /\ Cardinality(run.inflight) <= 1
    /\ run.inflight # {} => run.inflight = {callLog[Len(callLog)]}

\* C17 witness: the chat call of the second of three files is in flight
\* after the first file was fetched and reviewed
C17_Witness ==
    /\ Len(run.files.elems) = 3 /\ Len(callLog) = 5
    /\ run.inflight = {Call("chat", run.files.elems[2])}
    /\ Len(run.replies) = 1

IsChat(c) == c.op = "chat"

FullSuccess == completion # NoMsg /\ completion.err = NoErr

\* C18: the message of a run that succeeded carries the file list as the
\* listing returned it, in that order, and a mapping whose keys are the listed
\* files, each mapped to what its own chat call returned; the chat calls made
\* are one per listed file, in listing order.
C18_FullSuccess ==
    FullSuccess =>
        LET files == run.files.elems
        IN /\ completion.files = run.files
           /\ ~completion.files.isNil /\ ~completion.reviews.isNil
           /\ DOMAIN completion.reviews.kv = {files[i] : i \in 1..Len(files)}
           /\ Len(run.replies) = Len(files)
           /\ \A i \in 1..Len(files) : completion.reviews.kv[files[i]] = run.replies[i]
           /\ SelectSeq(callLog, IsChat) = [i \in 1..Len(files) |-> Call("chat", files[i])]

\* C18 witness: three files, not in alphabetical order, reviewed with
\* different replies
C18_Witness ==
    /\ FullSuccess
    /\ completion.files.elems = <<"c.go", "a.go", "b.go">>
    /\ run.replies = <<"LGTM", "needs work", "LGTM">>

NavKeys == {"up", "k", "down", "j"}

\* C19: in Loading and in Error, Update answers each of the navigation keys
\* with the state it was given, unchanged in every field, and with no command.
C19_NavIgnored ==
    View(m).screen \in {"Loading", "Error"} =>
        \A key \in NavKeys : Update(m, KeyMsg(key)) = [m |-> m, cmd |-> "nil"]

\* C19 witness: the session is in Error, at the size of a resize it has
\* handled, and a "down" key leaves it as it is
C19_Witness ==
    /\ View(m).screen = "Error" /\ m.width = 40 /\ m.height = 50
    /\ Update(m, KeyMsg("down")).m = m

\* C20: in Content with n files, Update answers "up"/"k" with the cursor at
\* i-1 if i > 0 and at 0 if i = 0, and "down"/"j" with the cursor at i+1 if
\* i < n-1 and at n-1 if i = n-1, every other field as it was and no command;
\* and no step of the session moves the cursor by more than one position or
\* changes another field of the state along with it.
C20_Navigation ==
    /\ [](View(m).screen = "Content" =>
            /\ \A key \in {"up", "k"} :
                  Update(m, KeyMsg(key)) =
                      [m |-> [m EXCEPT !.selected = IF m.selected > 0 THEN m.selected - 1 ELSE 0],
                       cmd |-> "nil"]
            /\ \A key \in {"down", "j"} :
                  /\ Update(m, KeyMsg(key)) =
                      [m |-> [m EXCEPT !.selected = IF m.selected < NumFiles - 1
                                                    THEN m.selected + 1 ELSE m.selected],
                       cmd |-> "nil"]
                  /\ (NumFiles > 0 /\ m.selected >= NumFiles - 1) => m.selected = NumFiles - 1)
    /\ [][ m'.selected # m.selected =>
              /\ View(m).screen = "Content"
              /\ m'.selected \in {m.selected - 1, m.selected + 1}
              /\ m' = [m EXCEPT !.selected = m'.selected]
              /\ UNCHANGED <<provider, started, quit, tickPending, run, completion,
                             delivered, callLog>> ]_vars

\* C20 witness: the cursor was moved down to the last of three files and
\* back up to the second
C20_Witness ==
    /\ View(m).screen = "Content" /\ NumFiles = 3 /\ m.selected = 1
    /\ Update(m, KeyMsg("j")).m.selected = 2 /\ Update(m, KeyMsg("k")).m.selected = 0

\* the subprocess of getFileStagedDiff succeeded for the file at idx and its
\* output is blank after trimming
BlankDiff ==
    run.diffExec # NoExec /\ ~run.diffExec.failed /\ TrimSpace(run.diffExec.out) = ""

\* C21: when the diff output of a staged file is blank after trimming, the
\* run has ended at that file: the last call started is the diff fetch of
\* the file, no chat call was made for it, the completion message carries no
\* file list and no mapping, and its error names the file; the session that
\* receives it shows that error.
C21_EmptyDiffFails ==
    BlankDiff =>
        LET f == run.files.elems[run.idx]
        IN /\ run.pc = "done" /\ run.inflight = {}
           /\ callLog[Len(callLog)] = Call("diff", f)
           /\ \A i \in 1..Len(callLog) : callLog[i] # Call("chat", f)
           /\ completion =
                 reviewLoadedMsg(NilSlice, NilMap, Errorf("diff", f, "no diff output for " \o f))
           /\ delivered = 1 => (View(m).screen = "Error" /\ View(m).text.file = f)

\* C21 witness: the second of two files had a diff of white space only, after
\* the first was reviewed, and the session shows the error
C21_Witness ==
    /\ BlankDiff /\ run.diffExec.out = " \n"
    /\ run.idx = 2 /\ Len(run.replies) = 1 /\ delivered = 1

\* C22: from the step that handles the completion message on, no step
\* changes the stored file list or the stored mapping.
C22_ResultsImmutable ==
    [][ delivered >= 1 => (m'.files = m.files /\ m'.reviews = m.reviews) ]_vars

\* C22 witness: after the message of a run over three files was handled,
\* the last tick, a resize and navigation keys were handled, and the list
\* and mapping are those of the message
C22_Witness ==
    /\ delivered = 1 /\ NumFiles = 3 /\ m.selected = 2
    /\ ~tickPending /\ m.width = 120 /\ m.height = 24
    /\ m.files = completion.files /\ m.reviews = completion.reviews

\* the messages other than the completion message
OtherMsgs ==
    {TickMsg} \cup {KeyMsg(k) : k \in Keys}
        \cup {WindowSizeMsg(w, h) : w \in Widths, h \in Heights}

\* C23: as long as the run has not returned, the session is in Loading and
\* no message has been delivered; in Loading, Update keeps the loading flag
\* for every key, tick and resize message; and a step takes the session out
\* of Loading only by handing the completion message to Update.
C23_LoadingUntilCompletion ==
    /\ [](/\ run.pc # "done" => (View(m).screen = "Loading" /\ delivered = 0
                                    /\ completion = NoMsg)
          /\ View(m).screen = "Loading" =>
                \A msg \in OtherMsgs : View(Update(m, msg).m).screen = "Loading")
    /\ [][ (View(m).screen = "Loading" /\ View(m').screen # "Loading") =>
              (delivered' = delivered + 1 /\ completion # NoMsg
               /\ m' = Update(m, completion).m) ]_vars

\* C23 witness: a chat call is in flight, and the session, still in Loading,
\* has handled ticks, a resize and keys
C23_Witness ==
    /\ run.pc = "chat" /\ run.inflight # {} /\ View(m).screen = "Loading"
    /\ m.spinner = SpinnerFrames - 1 /\ m.width = 40 /\ ~quit

\* C24: Update answers a window-size message, in every state, with the state
\* it was given but for width and height, and with no command; the screen
\* shown is the same; and a step that changes width or height changes
\* nothing else.
C24_ResizeFrame ==
    /\ [](\A w \in Widths, h \in Heights :
            /\ Update(m, WindowSizeMsg(w, h)) =
                  [m |-> [m EXCEPT !.width = w, !.height = h], cmd |-> "nil"]
            /\ View(Update(m, WindowSizeMsg(w, h)).m).screen = View(m).screen)
    /\ [][ (m'.width # m.width \/ m'.height # m.height) =>
              /\ m' = [m EXCEPT !.width = m'.width, !.height = m'.height]
              /\ UNCHANGED <<provider, started, quit, tickPending, run, completion,
                             delivered, callLog>> ]_vars

\* C24 witness: in Content, with the cursor on the third file, two resizes
\* were handled
C24_Witness ==
    /\ View(m).screen = "Content" /\ m.selected = 2
    /\ m.width = 40 /\ m.height = 50 /\ tickPending

\* C26: the screen shown is Loading exactly while the loading flag is set,
\* which is until the completion message is handled; Error exactly when the
\* message handled carried an error, which is then the captured one; Content
\* otherwise, with no error captured and the file list and mapping of the
\* message stored; and the loading flag, once cleared, stays cleared.
C26_ViewOfState ==
    /\ [](/\ View(m).screen \in {"Loading", "Error", "Content"}
          /\ View(m).screen = "Loading" <=> m.loading
          /\ m.loading <=> delivered = 0
          /\ View(m).screen = "Error" <=> (~m.loading /\ m.err # NoErr)
          /\ View(m).screen = "Error" => (m.err = completion.err /\ completion.err # NoErr)
          /\ View(m).screen = "Content" =>
                /\ m.err = NoErr /\ completion.err = NoErr
                /\ m.files = completion.files /\ m.reviews = completion.reviews)
    /\ [][ ~m.loading => ~m'.loading ]_vars

\* C26 witness: Content shows the review of the second of two files
C26_Witness ==
    /\ View(m).screen = "Content" /\ NumFiles = 2 /\ m.selected = 1
    /\ View(m).review = "needs work" /\ m.err = NoErr

\* the run has returned and the session shows Error or Content
LeftLoading == run.pc = "done" /\ View(m).screen \in {"Error", "Content"}

\* C30 as claimed: when every call of the run returns, the run ends and the
\* session eventually shows Error or Content.
C30_EventuallyLeavesLoading == <>LeftLoading

\* C30 amended: when every call of the run returns, the run ends and the
\* session eventually shows Error or Content, unless the user quits first.
C30_LeavesLoadingUnlessQuit == <>(LeftLoading \/ quit)

\* C30 witness: a run over three files has made all its calls and the session
\* shows Content
C30_Witness ==
    /\ LeftLoading /\ View(m).screen = "Content" /\ ~quit
    /\ Len(callLog) = 7 /\ Len(run.replies) = 3

----------------------------------------------------------------------------
\* Properties of the configuration commands and of Load (SpecCfg).

SetKeyForProviderDone == last.cmd = "set-key" /\ last.provider # "" /\ last.err = ""

\* the root command, run after the last command, loaded the key of that
\* command and resolved base URL and model by the rules of that command's
\* provider name
RoundTrips ==
    /\ ~loaded.isNil /\ loaded.err = ""
    /\ loaded.cfg.APIKey = last.key
    /\ ~loaded.provider.isNil
    /\ LET filled == FillDefaults(ToLower(TrimSpace(last.provider)),
                                  TrimSpace(loaded.cfg.BaseURL), TrimSpace(loaded.cfg.Model))
       IN /\ loaded.provider.baseURL = filled.baseURL
          /\ loaded.provider.model = filled.model

NoOtherDefault ==
    /\ last.before.provider \in {Nil, "", last.provider}
    /\ \A n \in DOMAIN last.before.providers :
          ToLower(n) = ToLower(last.provider) => n = last.provider

Parsable == doc.kind \in {"empty", "map"}

C5_FlatLoad ==
    ( /\ loaded # NotLoaded /\ Parsable
      /\ (~doc.hasProviders \/ DOMAIN doc.providers = {}) )
    => (loaded.isNil <=> Str(doc.api_key) = "")

\* C5 witness: Load accepted a flat document that names a provider and a base
\* URL and has no providers map
C5_Witness ==
    /\ loaded # NotLoaded /\ ~loaded.isNil /\ ~doc.hasProviders
    /\ doc.provider = "myllm" /\ doc.base_url = "U0"

PreconditionErrors ==
    {"config file does not exist", "no providers map", "provider does not exist"}

\* the document set-provider found lacks what the command requires
LacksPrecondition ==
    \/ last.before.kind = "absent"
    \/ /\ last.before.kind \in {"empty", "map"}
       /\ \/ ~last.before.hasProviders
          \/ last.provider \notin DOMAIN last.before.providers

\* C6: `set-provider P` on a document that does not exist, has no providers
\* map, or has no key P in it fails with the error naming that precondition
\* and writes nothing: the document is as it was.
C6_SetProviderPrecondition ==
    (last.cmd = "set-provider" /\ LacksPrecondition) =>
        /\ last.err \in PreconditionErrors
        /\ ~last.wrote
        /\ doc = last.before

\* C6 witness: set-provider was refused on a document whose providers map
\* has other keys than P
C6_Witness ==
    /\ last.cmd = "set-provider" /\ LacksPrecondition
    /\ last.before.kind = "map" /\ last.before.hasProviders
    /\ DOMAIN last.before.providers # {}
    /\ last.err = "provider does not exist"

\* the endpoint and model set-key is to write for a recognized name
DefaultEndpoint(p) ==
    IF p = "deepseek" THEN "https://api.deepseek.com"
    ELSE "https://dashscope.aliyuncs.com/compatible-mode/v1"
DefaultModelOf(p) == IF p = "deepseek" THEN "deepseek-coder" ELSE "qwen-turbo"

\* C7 as claimed: `set-key K --provider P` on an empty or non-existent
\* document, P a recognized name, leaves a document with providers.P.api_key =
\* K, providers.P.base_url and providers.P.model the defaults of P, and
\* provider = P (the write itself not failing).
C7_SetKeyOnEmptyOrAbsent ==
    ( /\ last.cmd = "set-key" /\ last.provider \in {"deepseek", "qwen"}
      /\ last.before.kind \in {"absent", "empty"}
      /\ last.err # "write config file" )
    => /\ doc.kind = "map"
       /\ last.provider \in DOMAIN doc.providers
       /\ doc.providers[last.provider] =
             [api_key |-> last.key, base_url |-> DefaultEndpoint(last.provider),
              model |-> DefaultModelOf(last.provider)]
       /\ doc.provider = last.provider

\* the entry of P in the document set-key found (a new entry if it had none)
PriorEntry ==
    IF last.before.hasProviders /\ last.provider \in DOMAIN last.before.providers
    THEN last.before.providers[last.provider]
    ELSE NewEntry

\* C12 as claimed: after `set-key K --provider P` on a document whose entry
\* of P had neither base_url nor model, the base_url and model of the entry
\* are those NewProvider fills for the name P (matched in lower case,
\* trimmed) from an unset base URL and an unset model.
C12_SetKeyFillsAsResolver ==
    (SetKeyForProviderDone /\ PriorEntry.base_url = Nil /\ PriorEntry.model = Nil) =>
        LET e == doc.providers[last.provider]
            filled == FillDefaults(ToLower(TrimSpace(last.provider)), "", "")
        IN /\ Str(e.base_url) = filled.baseURL
           /\ Str(e.model) = filled.model

\* C16: after a successful `set-key K --provider P` the default provider of
\* the document is P if the document found had none (absent, null or empty),
\* and is the one the document found had otherwise.
C16_DefaultProviderFrame ==
    SetKeyForProviderDone =>
        IF last.before.provider \in {Nil, ""}
        THEN doc.provider = last.provider
        ELSE doc.provider = last.before.provider

\* C16 witness: a key was set for deepseek in a document whose default
\* provider is myllm, and myllm is still the default
C16_Witness ==
    /\ SetKeyForProviderDone /\ last.provider = "deepseek"
    /\ last.before.provider = "myllm" /\ doc.provider = "myllm"
    /\ doc.providers["deepseek"].api_key = last.key

\* the configuration map the last command patched: the document it found, a
\* new map if it found none
Prior == ReadConfig(last.before).config

SetProviderDone == last.cmd = "set-provider" /\ last.err = ""

\* C25: a successful `set-provider P` has written the document it found with
\* the default provider set to P: the providers map with every entry, and
\* the flat api_key, base_url and model, are those of the document found.
C25_SetProviderFrame ==
    SetProviderDone =>
        /\ last.wrote
        /\ doc.provider = last.provider
        /\ doc.hasProviders /\ doc.providers = last.before.providers
        /\ doc.api_key = last.before.api_key
        /\ doc.base_url = last.before.base_url
        /\ doc.model = last.before.model
        /\ doc = [last.before EXCEPT !.provider = last.provider]

\* C25 witness: the default provider was switched from myllm to deepseek in
\* a document with two entries and a flat api_key
C25_Witness ==
    /\ SetProviderDone /\ last.provider = "deepseek"
    /\ last.before.provider = "myllm" /\ doc.provider = "deepseek"
    /\ DOMAIN doc.providers = {"deepseek", "myllm"}
    /\ doc.api_key = "K1"

\* C28: a successful `set-key K --provider P` leaves the entry of every other
\* provider and the flat api_key, base_url and model as it found them, adds
\* no entry but that of P, changes the default provider only when none was
\* set, stores K in the entry of P and keeps a base_url and a model that the
\* entry of P had; a successful `set-key K` without a provider changes the
\* flat api_key and nothing else.
C28_SetKeyFrame ==
    /\ SetKeyForProviderDone =>
          /\ doc.kind = "map" /\ doc.hasProviders
          /\ DOMAIN doc.providers = DOMAIN Prior.providers \cup {last.provider}
          /\ \A n \in DOMAIN Prior.providers \ {last.provider} :
                doc.providers[n] = Prior.providers[n]
          /\ doc.api_key = Prior.api_key
          /\ doc.base_url = Prior.base_url
          /\ doc.model = Prior.model
          /\ (Prior.provider \notin {Nil, ""} => doc.provider = Prior.provider)
          /\ doc.providers[last.provider].api_key = last.key
          /\ (PriorEntry.base_url # Nil =>
                doc.providers[last.provider].base_url = PriorEntry.base_url)
          /\ (PriorEntry.model # Nil =>
                doc.providers[last.provider].model = PriorEntry.model)
    /\ (last.cmd = "set-key" /\ last.provider = "" /\ last.err = "") =>
          doc = [Prior EXCEPT !.api_key = last.key]

\* C28 witness: a key was set for deepseek in a document where deepseek had
\* a model and no base_url and myllm had an entry; the model is kept and the
\* base_url is the default of deepseek
C28_Witness ==
    /\ SetKeyForProviderDone /\ last.provider = "deepseek" /\ last.key = "K1"
    /\ PriorEntry = [api_key |-> "K0", base_url |-> Nil, model |-> "M0"]
    /\ "myllm" \in DOMAIN doc.providers
    /\ doc.providers["deepseek"] =
          [api_key |-> "K1", base_url |-> "https://api.deepseek.com", model |-> "M0"]

\* C27 as claimed: after one or more successful commands on a document that
\* did not exist, each set-key with a non-empty key, Load succeeds on the
\* document, and when the providers map is non-empty the default provider
\* is a key of the map whose api_key is non-empty.
C27_LoadableAfterCommands ==
    (ncmds > 0 /\ last.fresh) =>
        /\ Load(doc).err = ""
        /\ (doc.hasProviders /\ DOMAIN doc.providers # {}) =>
              /\ doc.provider \in DOMAIN doc.providers
              /\ Str(doc.providers[doc.provider].api_key) # ""

----------------------------------------------------------------------------
\* Properties of two concurrent set-key commands (SpecRace).

\* the document holds the key of the command under the command's provider
HasKey(d, a) ==
    /\ d.hasProviders /\ a.provider \in DOMAIN d.providers
    /\ d.providers[a.provider].api_key = a.key

\* the entry of provider p in document d, Nil if it has none
EntryOf(d, p) ==
    IF d.hasProviders /\ p \in DOMAIN d.providers THEN d.providers[p] ELSE Nil

BothDone == race.pc = <<"done", "done">>

\* C29: when two set-key commands for different providers have both
\* succeeded: if both read the document before either wrote it, the document
\* holds the key of the later writer only, and the entry of the earlier
\* writer's provider is what it was before the two commands (a lost update);
\* if one ran after the other, the document holds both keys.
C29_LostUpdate ==
    (BothDone /\ race.args[1].provider # race.args[2].provider) =>
        LET f == race.writes[1]
            s == race.writes[2]
        IN IF race.overlap
           THEN /\ HasKey(doc, race.args[s])
                /\ ~HasKey(doc, race.args[f])
                /\ EntryOf(doc, race.args[f].provider) =
                      EntryOf(race.initial, race.args[f].provider)
           ELSE HasKey(doc, race.args[1]) /\ HasKey(doc, race.args[2])

\* C29 witness: both commands found no file, the command for deepseek wrote
\* first, and the file holds the entry of qwen only
C29_Witness ==
    /\ BothDone /\ race.overlap /\ race.initial.kind = "absent"
    /\ race.args[1].provider = "deepseek" /\ race.args[2].provider = "qwen"
    /\ race.writes = <<1, 2>>
    /\ DOMAIN doc.providers = {"qwen"} /\ doc.providers["qwen"].api_key = "KB"

----------------------------------------------------------------------------
\* Properties of the root command's process (SpecMain).

\* C13 as claimed: the configuration file is loaded at most once in one run
\* of the root command.
C13_AtMostOneLoad == main.loads <= 1

\* C13 amended: the configuration file is loaded at most twice in one run of
\* the root command: once by main before cmd.Execute and once by rootCmd.RunE;
\* launching and running the session loads nothing.
C13_AtMostTwoLoads ==
    /\ main.loads <= 2
    /\ main.pc = "main" => main.loads = 0
    /\ main.pc = "execute" => main.loads = 1
    /\ main.pc \in {"running", "exited"} => main.loads = 2

\* C13 witness: the session has received the message of its review run, the
\* file loaded twice before it was launched
C13_Witness == main.pc = "running" /\ delivered = 1 /\ main.loads = 2 /\ ~main.warned

LoadOK == Load(doc).err = ""
ProviderOK == LoadOK /\ NewProvider(Load(doc).cfg).err = ""

\* C14: the session is launched, started, and its review run started, only
\* when config.Load and ai.NewProvider have both succeeded (and both loads
\* are done); when either fails the process ends with an error and exit
\* code 1, no session and no review run were started, and no external call
\* was made.
C14_LaunchOnlyAfterBoth ==
    /\ (main.pc = "running" \/ started \/ run # IdleRun \/ callLog # <<>>) =>
          (LoadOK /\ ProviderOK /\ main.loads = 2 /\ provider = "llm")
    /\ (main.pc \in {"running", "exited"} /\ ~(LoadOK /\ ProviderOK)) =>
          /\ main.pc = "exited" /\ main.exit = 1 /\ main.err # ""
          /\ ~started /\ run = IdleRun /\ callLog = <<>> /\ completion = NoMsg
    /\ (main.pc = "exited" /\ LoadOK /\ ProviderOK) => (main.exit = 0 /\ quit)

\* C14 witness: the file loaded (no warning from main) but its API key is
\* blank, ai.NewProvider failed and the process ended with exit code 1
C14_Witness ==
    /\ main.pc = "exited" /\ main.exit = 1 /\ ~main.warned
    /\ main.err = "init provider failed" /\ ~started

----------------------------------------------------------------------------
\* Properties of the provider resolver (SpecRes).

\* the names NewProvider has defaults for, and those defaults
QwenNames == {"qwen", "tongyi", "ali", "aliyun"}

\* the name table applied to name, from base URL u and model mo, "" for unset
NameTable(name, u, mo) ==
    IF name = "deepseek"
    THEN [baseURL |-> IF u = "" THEN "https://api.deepseek.com" ELSE u,
          model |-> IF mo = "" THEN "deepseek-coder" ELSE mo]
    ELSE IF name \in QwenNames
    THEN [baseURL |-> IF u = "" THEN "https://dashscope.aliyuncs.com/compatible-mode/v1" ELSE u,
          model |-> IF mo = "" THEN "qwen-turbo" ELSE mo]
    ELSE [baseURL |-> u, model |-> IF mo = "" THEN "gpt-4o-mini" ELSE mo]

\* C15 as claimed: for every input whose API key is not the empty string,
\* resolution succeeds and gives the base URL and model of the name table
\* applied to the configured values as they are, with a model that is not
\* empty.
C15_NameTableAsConfigured ==
    (rout # NoResolve /\ rcfg.APIKey # "") =>
        /\ ~rout.isNil
        /\ rout.baseURL = NameTable(ToLower(TrimSpace(rcfg.Provider)), rcfg.BaseURL,
                                    rcfg.Model).baseURL
        /\ rout.model = NameTable(ToLower(TrimSpace(rcfg.Provider)), rcfg.BaseURL,
                                  rcfg.Model).model
        /\ rout.model # ""

\* C15 amended: for every input whose API key is not blank, resolution
\* succeeds and gives the base URL and model of the name table applied to
\* the configured values with surrounding white space trimmed (a blank value
\* is an unset one), with a model that is not empty.
C15_NameTable ==
    (rout # NoResolve /\ TrimSpace(rcfg.APIKey) # "") =>
        /\ ~rout.isNil
        /\ rout.baseURL = NameTable(ToLower(TrimSpace(rcfg.Provider)), TrimSpace(rcfg.BaseURL),
                                    TrimSpace(rcfg.Model)).baseURL
        /\ rout.model = NameTable(ToLower(TrimSpace(rcfg.Provider)), TrimSpace(rcfg.BaseURL),
                                  TrimSpace(rcfg.Model)).model
        /\ rout.model # ""

\* C15 witness: an unrecognized name with a base URL and no model was
\* resolved to that base URL and the global default model
C15_Witness ==
    /\ rout # NoResolve /\ ~rout.isNil
    /\ rcfg.Provider = "myllm" /\ rcfg.BaseURL = " U1 " /\ rcfg.Model = ""
    /\ rout.baseURL = "U1" /\ rout.model = "gpt-4o-mini"

\* C8: resolving again from the (baseURL, model) pair already filled for a
\* provider name yields that same pair.
C8_FillIdempotent ==
    rout2 # NoResolve =>
        /\ ~rout2.isNil
        /\ rout2.baseURL = rout.baseURL
        /\ rout2.model = rout.model

\* C8 witness: a mixed-case recognized name with blank base URL and model was
\* filled with the provider's defaults, and resolved again
C8_Witness ==
    /\ rout2 # NoResolve
    /\ rcfg.Provider = "DeepSeek" /\ rcfg.BaseURL = " " /\ rcfg.Model = ""
    /\ rout.baseURL = "https://api.deepseek.com" /\ rout.model = "deepseek-coder"

====
